---- MODULE Spec2Model ----
(***************************************************************************)
(* Model of words_and_linguistics/spell.cpp: the Spell class, which holds  *)
(* a digit string and spells it out in words and in words-and-digits form. *)
(*                                                                         *)
(* A C++ string is a sequence of characters; a character is written as a   *)
(* one-element name ("0".."9", ",", "a", "NUL") and Ord gives its code, so *)
(* that the character arithmetic of the source (c - '0') is computed.      *)
(* The two result strings are only ever extended by `piece + " "`, so they *)
(* are kept as the sequence of pieces; Text renders the C++ string.        *)
(***************************************************************************)
EXTENDS Integers, Sequences, FiniteSets, TLC

VARIABLES
    obj,                          \* "none" | "live" | "crashed"
    number_in_digits,             \* Spell::_number_in_digits
    number_in_words,              \* Spell::_number_in_words (pieces)
    number_in_words_and_digits,   \* Spell::_number_in_words_and_digits (pieces)
    arg,                          \* argument of the last constructor / setter call
    last,                         \* last member called
    thrown,                       \* what() of the exception the last call raised, or ""
    pc,                           \* position inside do_spell: "idle" | "loop"
    bucket,                       \* do_spell local: the 3-digit buckets
    allocated_buckets,            \* do_spell local
    big_number,                   \* do_spell local
    i                             \* do_spell local: loop index

vars == <<obj, number_in_digits, number_in_words, number_in_words_and_digits,
          arg, last, thrown, pc, bucket, allocated_buckets, big_number, i>>

locals == <<pc, bucket, allocated_buckets, big_number, i>>

----------------------------------------------------------------------------
\* Characters

Digits == {"0", "1", "2", "3", "4", "5", "6", "7", "8", "9"}

Ord ==
    [c \in Digits \cup {",", "a", "NUL"} |->
        CASE c = "NUL" -> 0
          [] c = ","   -> 44
          [] c = "a"   -> 97
          [] c = "0" -> 48 [] c = "1" -> 49 [] c = "2" -> 50 [] c = "3" -> 51
          [] c = "4" -> 52 [] c = "5" -> 53 [] c = "6" -> 54 [] c = "7" -> 55
          [] c = "8" -> 56 [] c = "9" -> 57]

DigitChar == <<"0", "1", "2", "3", "4", "5", "6", "7", "8", "9">>

Min(a, b) == IF a < b THEN a ELSE b

\* C++ integer division and remainder truncate toward zero
CDiv(a, b) == IF a >= 0 THEN a \div b ELSE -((-a) \div b)

CRem(a, b) == a - b * CDiv(a, b)

----------------------------------------------------------------------------
\* namespace spell_utilities: the tables (C arrays, indexed from 0)

word_for_ones ==
    [k \in 0..9 |-> <<"", "one", "two", "three", "four",
                      "five", "six", "seven", "eight", "nine">>[k + 1]]

word_for_teens ==
    [k \in 0..9 |-> <<"", "eleven", "twelve", "thirteen", "fourteen",
                      "fifteen", "sixteen", "seventeen", "eighteen",
                      "nineteen">>[k + 1]]

word_for_tens ==
    [k \in 0..9 |-> <<"", "ten", "twenty", "thirty", "forty",
                      "fifty", "sixty", "seventy", "eighty", "ninety">>[k + 1]]

big_number_names ==
    <<"", "thousand", "million", "billion",
      "trillion", "quadrillion", "quintillion",
      "sextillion", "septillion", "octillion",
      "nonillion", "decillion", "undecillion",
      "duodecillion", "tredecillion", "quattuordecillion",
      "quindecillion", "sexdecillion", "septendecillion",
      "octodecillion", "novemdecillion", "vigintillion",
      "unvigintillion", "duovigintillion", "trevigintillion",
      "quattuorvigintillion", "quinvigintillion", "sexvigintillion",
      "septenvigintillion", "octovigintillion", "novemvigintillion",
      "trigintillion", "untrigintillion", "duotrigintillion">>

name_for_big_numbers ==
    [k \in 0..(Len(big_number_names) - 1) |-> big_number_names[k + 1]]

\* faulty variants: the limit one lower; the limit past what the name table covers
MAX_DIGITS_ALLOWED_one_less == 99 + 2

MAX_DIGITS_ALLOWED_past_table == 99 + 3 + 3

MAX_DIGITS_ALLOWED == 99 + 2 + 1

\* What a read past the end of a table may yield (undefined behaviour)
JunkWords == {"", "<junk>"}

\* table[index]; a read outside the array yields junk
Read(table, index, junk) ==
    IF index \in DOMAIN table THEN table[index] ELSE junk

----------------------------------------------------------------------------
\* namespace spell_utilities: the functions

string_to_integer(input) ==
    IF Len(input) = 3
    THEN ((Ord[input[1]] - Ord["0"]) * 100)
         + ((Ord[input[2]] - Ord["0"]) * 10)
         + ((Ord[input[3]] - Ord["0"]) * 1)
    ELSE IF Len(input) = 2
    THEN (Ord[input[1]] - Ord["0"]) * 10 + (Ord[input[2]] - Ord["0"]) * 1
    ELSE IF Len(input) = 1
    THEN (Ord[input[1]] - Ord["0"]) * 1
    ELSE 0

\* the characters "%d" prints for a non-negative n
RECURSIVE DecimalChars(_)
DecimalChars(n) ==
    IF n < 10 THEN <<DigitChar[n + 1]>>
    ELSE Append(DecimalChars(n \div 10), DigitChar[(n % 10) + 1])

RECURSIVE Concat(_)
Concat(cs) == IF cs = <<>> THEN "" ELSE Head(cs) \o Concat(Tail(cs))

buf_size == 4

\* snprintf(buf, sizeof(buf), "%d", input): at most sizeof(buf) - 1 characters
integer_to_string(input) ==
    LET full == IF input < 0 THEN <<"-">> \o DecimalChars(-input)
                ELSE DecimalChars(input)
    IN  Concat(SubSeq(full, 1, Min(Len(full), buf_size - 1)))

\* the index at which `for (i = 0; input[i]; i++)` stops when nothing returns
\* earlier: the first NUL character, or the length (input[size()] is NUL)
ScanEnd(input) ==
    LET stops == {k \in 0..Len(input) : k = Len(input) \/ input[k + 1] = "NUL"}
    IN  CHOOSE k \in stops : \A m \in stops : k <= m

is_valid_number(input) ==
    IF input = <<>> THEN FALSE
    ELSE LET stop == ScanEnd(input)
         IN  IF \E k \in 1..stop :
                    LET digit == Ord[input[k]] - Ord["0"]
                    IN  digit < 0 \/ digit > 9
             THEN FALSE
             ELSE IF stop > MAX_DIGITS_ALLOWED THEN FALSE
             ELSE TRUE

bkt_length == 3

\* faulty variant: a full bucket of padding when the length is a multiple of 3
split_number_always_pads(input) ==
    LET pad == bkt_length - (Len(input) % bkt_length)
        adjusted_input == [k \in 1..pad |-> "0"] \o input
    IN  [b \in 1..(Len(adjusted_input) \div bkt_length) |->
            SubSeq(adjusted_input, (b - 1) * bkt_length + 1, b * bkt_length)]

split_number_to_buckets_of_3_digits(input) ==
    LET pad == bkt_length - (Len(input) % bkt_length)
        adjusted_input ==
            (IF pad = 1 THEN <<"0">> ELSE IF pad = 2 THEN <<"0", "0">> ELSE <<>>)
            \o input
        starts == {k \in 0..(Len(adjusted_input) - 1) : k % bkt_length = 0}
    IN  [b \in 1..Cardinality(starts) |->
            SubSeq(adjusted_input, (b - 1) * bkt_length + 1,
                   Min((b - 1) * bkt_length + bkt_length, Len(adjusted_input)))]

\* snprintf(rule, sizeof(rule), "... %d ...", MAX_DIGITS_ALLOWED): the text
\* has 115 characters and fits rule[128]
number_constraints ==
    "Number must be a non-zero positive integer, should not exceed "
    \o Concat(DecimalChars(MAX_DIGITS_ALLOWED))
    \o " digits and may contain commas as digits separator"

----------------------------------------------------------------------------
\* class Spell

\* std::remove_copy(first, last, out, ','): the characters copied, in order
remove_copy(input, value) == SelectSeq(input, LAMBDA c : c # value)

\* std::string::find_first_not_of(c): 0-based position, or npos (-1 here)
find_first_not_of(s, c) ==
    LET found == {k \in 0..(Len(s) - 1) : s[k + 1] # c}
    IN  IF found = {} THEN -1 ELSE CHOOSE k \in found : \A m \in found : k <= m

\* s.erase(0, count); count = npos erases to the end
erase_front(s, count) ==
    IF count < 0 THEN <<>> ELSE SubSeq(s, count + 1, Len(s))

\* faulty variant: the leading zeros go before the commas do
Sanitized_zeros_first(given_number_in_digits) ==
    remove_copy(erase_front(given_number_in_digits,
                            find_first_not_of(given_number_in_digits, "0")),
                ",")

\* the local sanitized_number of set_number_in_digits, as validated
Sanitized(given_number_in_digits) ==
    LET buffer == [k \in 1..Len(given_number_in_digits) |-> "NUL"]
        copied == remove_copy(given_number_in_digits, ",")
        \* erase(returned iterator, end()): only the copied characters stay
        no_commas == SubSeq(copied \o SubSeq(buffer, Len(copied) + 1, Len(buffer)),
                            1, Len(copied))
    IN  erase_front(no_commas, find_first_not_of(no_commas, "0"))

\* faulty variant: ten taken for a teen
IsTeen_with_ten(n) == n >= 10 /\ n < 20

\* line 275: 11,12...19
IsTeen(n) == n > 10 /\ n < 20

\* one pass of the body of do_spell's loop over bucket[s.i]
SpellIteration(bkt, s, junk) ==
    LET b        == bkt[s.i + 1]
        n0       == string_to_integer(b)
        show     == n0 # 0
        wad1     == IF n0 # 0 THEN Append(s.wad, integer_to_string(n0)) ELSE s.wad
        hundreds == Ord[b[1]] - Ord["0"]
        w1       == IF n0 > 99
                    THEN s.words \o <<Read(word_for_ones, hundreds, junk), "hundred">>
                    ELSE s.words
        n1       == CRem(n0, 100)
        teen     == IsTeen(n1)
        w2       == IF teen THEN Append(w1, word_for_teens[n1 - 10])
                    ELSE IF n1 >= 10 THEN Append(w1, word_for_tens[n1 \div 10])
                    ELSE w1
        n2       == CRem(IF teen THEN 0 ELSE n1, 10)
        w3       == IF n2 > 0 /\ n2 < 10 THEN Append(w2, word_for_ones[n2]) ELSE w2
        name     == Read(name_for_big_numbers, s.big, junk)
    IN  [words |-> IF show THEN Append(w3, name) ELSE w3,
         wad   |-> IF show THEN Append(wad1, name) ELSE wad1,
         big   |-> s.big - 1,
         i     |-> s.i + 1,
         oob   |-> \/ s.oob
                   \/ n0 > 99 /\ hundreds \notin DOMAIN word_for_ones
                   \/ show /\ s.big \notin DOMAIN name_for_big_numbers]

\* the loop test of line 260
LoopContinues(index, count) == index < count

\* the passes of the loop from loop state s while the index is below `until`,
\* in order (evaluated by halves to keep the evaluation shallow)
RECURSIVE SpellLoop(_, _, _, _)
SpellLoop(bkt, until, s, junk) ==
    IF ~LoopContinues(s.i, until) THEN s
    ELSE IF until - s.i = 1 THEN SpellIteration(bkt, s, junk)
    ELSE LET mid == s.i + ((until - s.i) \div 2)
         IN  SpellLoop(bkt, until, SpellLoop(bkt, mid, s, junk), junk)

\* the two strings do_spell starts from
SpellStart(old_words, old_wad) == [words |-> <<>>, wad |-> <<>>]

\* do_spell as one step: the final loop state
SpellOf(digits, old_words, old_wad, junk) ==
    LET bkt   == split_number_to_buckets_of_3_digits(digits)
        count == Len(bkt)
        start == SpellStart(old_words, old_wad)
    IN  SpellLoop(bkt, count,
                  [words |-> start.words, wad |-> start.wad,
                   big |-> count - 1, i |-> 0, oob |-> FALSE],
                  junk)

\* the C++ string a sequence of pieces stands for: each piece and a space
RECURSIVE Text(_)
Text(pieces) ==
    IF pieces = <<>> THEN "" ELSE Head(pieces) \o " " \o Text(Tail(pieces))

----------------------------------------------------------------------------
\* Operations

Init ==
    /\ obj = "none"
    /\ number_in_digits = <<>>
    /\ number_in_words = <<>>
    /\ number_in_words_and_digits = <<>>
    /\ arg = <<>>
    /\ last = "none"
    /\ thrown = ""
    /\ pc = "idle"
    /\ bucket = <<>>
    /\ allocated_buckets = 0
    /\ big_number = 0
    /\ i = 0

\* faulty variant: the member is assigned before the validation
StoredDigits_before_check(old, sanitized_number) == sanitized_number

\* what set_number_in_digits leaves in _number_in_digits
StoredDigits(old, sanitized_number) ==
    IF is_valid_number(sanitized_number) THEN sanitized_number ELSE old

\* Spell::Spell(given): the results start empty, then set_number_in_digits;
\* when that throws, no object comes to exist
Construct(given) ==
    /\ obj = "none"
    /\ last = "none"
    /\ pc = "idle"
    /\ LET sanitized_number == Sanitized(given)
           ok == is_valid_number(sanitized_number)
       IN  /\ obj' = IF ok THEN "live" ELSE "none"
           /\ number_in_digits' = StoredDigits(<<>>, sanitized_number)
           /\ thrown' = IF ok THEN "" ELSE number_constraints
    /\ number_in_words' = <<>>
    /\ number_in_words_and_digits' = <<>>
    /\ arg' = given
    /\ last' = "Spell"
    /\ UNCHANGED locals

set_number_in_digits(given) ==
    /\ obj = "live"
    /\ pc = "idle"
    /\ LET sanitized_number == Sanitized(given)
           ok == is_valid_number(sanitized_number)
       IN  /\ number_in_digits' = StoredDigits(number_in_digits, sanitized_number)
           /\ thrown' = IF ok THEN "" ELSE number_constraints
    /\ arg' = given
    /\ last' = "set_number_in_digits"
    /\ UNCHANGED <<obj, number_in_words, number_in_words_and_digits>>
    /\ UNCHANGED locals

\* do_spell, whole; a read past a table yields junk or ends the process
do_spell ==
    /\ obj = "live"
    /\ pc = "idle"
    /\ \E junk \in JunkWords, crash \in BOOLEAN :
          LET r == SpellOf(number_in_digits, number_in_words,
                           number_in_words_and_digits, junk)
          IN  /\ crash => r.oob
              /\ obj' = IF crash THEN "crashed" ELSE "live"
              /\ number_in_words' = r.words
              /\ number_in_words_and_digits' = r.wad
    /\ last' = "do_spell"
    /\ thrown' = ""
    /\ UNCHANGED <<number_in_digits, arg>>
    /\ UNCHANGED locals

----------------------------------------------------------------------------
\* do_spell, step by step

\* lines 250-258: clear the results, split, set up the loop
SpellBegin ==
    /\ obj = "live"
    /\ pc = "idle"
    /\ LET start == SpellStart(number_in_words, number_in_words_and_digits)
       IN  /\ number_in_words' = start.words
           /\ number_in_words_and_digits' = start.wad
    /\ bucket' = split_number_to_buckets_of_3_digits(number_in_digits)
    /\ allocated_buckets' = Len(bucket')
    /\ big_number' = allocated_buckets' - 1
    /\ i' = 0
    /\ pc' = "loop"
    /\ last' = "do_spell"
    /\ thrown' = ""
    /\ UNCHANGED <<obj, number_in_digits, arg>>

\* lines 260-297: one pass of the loop
SpellIter ==
    /\ obj = "live"
    /\ pc = "loop"
    /\ LoopContinues(i, allocated_buckets)
    /\ \E junk \in JunkWords, crash \in BOOLEAN :
          LET r == SpellIteration(bucket,
                                  [words |-> number_in_words,
                                   wad |-> number_in_words_and_digits,
                                   big |-> big_number, i |-> i, oob |-> FALSE],
                                  junk)
          IN  /\ crash => r.oob
              /\ obj' = IF crash THEN "crashed" ELSE "live"
              /\ number_in_words' = r.words
              /\ number_in_words_and_digits' = r.wad
              /\ big_number' = r.big
              /\ i' = r.i
    /\ UNCHANGED <<number_in_digits, arg, last, thrown, pc, bucket,
                   allocated_buckets>>

\* line 299: the loop is over, do_spell returns
SpellReturn ==
    /\ obj = "live"
    /\ pc = "loop"
    /\ ~LoopContinues(i, allocated_buckets)
    /\ pc' = "idle"
    /\ UNCHANGED <<obj, number_in_digits, number_in_words,
                   number_in_words_and_digits, arg, last, thrown, bucket,
                   allocated_buckets, big_number, i>>

----------------------------------------------------------------------------
\* Inputs

MaxDigitLen == 3

MaxMixedLen == 4

MaxRun == 103

MixedChars == {"NUL", ",", "0", "1", "a"}

Strings(alphabet, maxlen) ==
    UNION {[1..n -> alphabet] : n \in 0..maxlen}

\* n characters, the k-th being at[k]
Run(n, at(_)) == [k \in 1..n |-> at(k)]

Ones(k) == "1"

OneThenZeros(k) == IF k = 1 THEN "1" ELSE "0"

Sparse(k) == IF k % 4 = 1 THEN "5" ELSE IF k % 7 = 0 THEN "9" ELSE "0"

LongInputs ==
    UNION {{Run(n, Ones), Run(n, OneThenZeros), Run(n, Sparse),
            <<"0", ",", "0">> \o Run(n, Ones),
            <<"1", ",">> \o Run(n - 1, Sparse)} : n \in 1..MaxRun}

Examples ==
    { <<"0">>, <<"1", "4">>, <<"1", "2", "3">>, <<"1", "0", "0", "1">>,
      <<"1", ",", "0", "0", "0", ",", "0", "0", "0">>,
      <<"1", "0", "0", "0", "2", "0">>,
      <<"1", ",", "2", "3", "4", ",", "5", "6", "7">>,
      <<"1", "2", "3", "4", "5", "6", "7">>,
      <<"0", "0", "7">>, <<"7">>, <<"0", ",", "0", "0", "7">>,
      <<"0", ",", "0", "0", "0">> }

Inputs ==
    Strings(Digits, MaxDigitLen) \cup Strings(MixedChars, MaxMixedLen)
        \cup LongInputs \cup Examples

\* the inputs of the step-by-step runs: the long ones, the examples, the mixed
LoopInputs == Strings(MixedChars, MaxMixedLen) \cup LongInputs \cup Examples

LifeInputs ==
    { <<"1", "4">>, <<"1", "5">>, <<"1", "0", "0", "1">>, <<"0", "0", "7">>,
      <<"1", ",", "0", "0", "0">>, <<"1", "2", "3">>, <<"1", "NUL">>,
      <<>>, <<"0">>, <<",">>, <<"1", "a">>, <<"a">>,
      Run(MAX_DIGITS_ALLOWED, Ones), Run(MAX_DIGITS_ALLOWED + 1, Ones) }

----------------------------------------------------------------------------
\* Specifications

\* one object through any sequence of calls
Next ==
    \/ \E given \in LifeInputs : Construct(given)
    \/ \E given \in LifeInputs : set_number_in_digits(given)
    \/ do_spell

Spec == Init /\ [][Next]_vars

\* construct from any input, then spell
PureNext ==
    \/ \E given \in Inputs : Construct(given)
    \/ do_spell

PureSpec == Init /\ [][PureNext]_vars

\* construct from any input, then spell, the loop one pass at a time
LoopNext ==
    \/ \E given \in LoopInputs : Construct(given)
    \/ SpellBegin
    \/ SpellIter
    \/ SpellReturn

\* do_spell is straight-line sequential code: once entered it keeps running
LoopSpec ==
    /\ Init
    /\ [][LoopNext]_vars
    /\ WF_vars(SpellIter)
    /\ WF_vars(SpellReturn)

----------------------------------------------------------------------------
\* The statements, in terms of what a caller observes

AllDigits(s) == \A k \in 1..Len(s) : s[k] \in Digits

\* the raw input without its commas, then without its leading zeros
Normalized(raw) ==
    LET kept  == SelectSeq(raw, LAMBDA c : c # ",")
        zeros == Cardinality({k \in 1..Len(kept) : \A m \in 1..k : kept[m] = "0"})
    IN  SubSeq(kept, zeros + 1, Len(kept))

\* the state right after the constructor or the setter returned or threw
JustSet == last \in {"Spell", "set_number_in_digits"}

\* the state right after do_spell returned
JustSpelled == obj = "live" /\ last = "do_spell" /\ pc = "idle"

\* Spell::number_length
number_length == Len(number_in_digits)

GroupCount(d) == (Len(d) + 2) \div 3

\* the value of the group with scale index k (0 = units) of digit string d
GroupValue(d, k) ==
    LET hi == Len(d) - 3 * k
        at(p) == IF p >= 1 THEN Ord[d[p]] - Ord["0"] ELSE 0
    IN  100 * at(hi - 2) + 10 * at(hi - 1) + at(hi)

\* C1 as stated: digits-only input is accepted exactly when 1..101 digits remain
C1_Original ==
    (JustSet /\ AllDigits(Normalized(arg)))
        => (thrown = "" <=> Len(Normalized(arg)) \in 1..101)

\* C1, amended: for a raw input that consists only of digits once commas and
\* leading zeros are removed, the constructor / set_number_in_digits succeeds
\* when 102 digits remain and fails with the constraint message when 103
\* remain; it accepts exactly the lengths 1..102
C1_LengthBoundary ==
    (JustSet /\ AllDigits(Normalized(arg)))
        => /\ thrown = "" <=> Len(Normalized(arg)) \in 1..102
           /\ thrown # "" => thrown = number_constraints

C1_Witness ==
    /\ last = "Spell" /\ obj = "live" /\ thrown = ""
    /\ AllDigits(Normalized(arg))
    /\ Len(Normalized(arg)) = 102
    /\ number_length = 102

\* C2: an input whose comma-stripped, zero-stripped form is empty or holds a
\* character other than '0'-'9' raises the error with the constraint message,
\* and nothing is stored for it
C2_RejectsNonNumbers ==
    (JustSet /\ (Normalized(arg) = <<>> \/ ~AllDigits(Normalized(arg))))
        => /\ thrown = number_constraints
           /\ last = "Spell" => obj = "none" /\ number_in_digits = <<>>

\* C3: when the units group is nonzero, do_spell appends nothing after that
\* group's fragment: each output ends in exactly one space (its last piece is
\* not empty); "14" gives "fourteen " and "14 ", "1001" gives
\* "one thousand one " and "1 thousand 1 "
C3_UnitsGroupAddsNothing ==
    (JustSpelled /\ AllDigits(number_in_digits)
                 /\ GroupValue(number_in_digits, 0) # 0)
        => /\ number_in_words[Len(number_in_words)] # ""
           /\ number_in_words_and_digits[Len(number_in_words_and_digits)] # ""
           /\ number_in_digits = <<"1", "4">>
                => /\ Text(number_in_words) = "fourteen "
                   /\ Text(number_in_words_and_digits) = "14 "
           /\ number_in_digits = <<"1", "0", "0", "1">>
                => /\ Text(number_in_words) = "one thousand one "
                   /\ Text(number_in_words_and_digits) = "1 thousand 1 "

\* C4: for an accepted raw input the stored digit string is the raw input
\* with every comma deleted, in order, and then every leading '0' deleted;
\* so inputs that differ only in commas and leading zeros are stored alike,
\* with the same number_length
C4_Normalization ==
    (JustSet /\ thrown = "")
        => /\ number_in_digits = Normalized(arg)
           /\ number_length = Len(Normalized(arg))
           /\ arg \in {<<"1", ",", "2", "3", "4", ",", "5", "6", "7">>,
                       <<"1", "2", "3", "4", "5", "6", "7">>}
                => number_in_digits = <<"1", "2", "3", "4", "5", "6", "7">>
           /\ arg \in {<<"0", "0", "7">>, <<"7">>, <<"0", ",", "0", "0", "7">>}
                => number_in_digits = <<"7">>

C4_Witness ==
    /\ last = "Spell" /\ obj = "live"
    /\ arg = <<"0", ",", "0", "0", "7">>
    /\ number_in_digits = <<"7">>
    /\ number_length = 1

\* a digit string as C5 takes it: 1..101 digits, digits only, not all zero
ValidDigitString(d) ==
    /\ Len(d) \in 1..101
    /\ AllDigits(d)
    /\ \E k \in 1..Len(d) : d[k] # "0"

\* C5: for every valid digit string held, do_spell once entered returns, the
\* loop has then run exactly ceil(len/3) passes, and both results are
\* non-empty
C5_SpellTerminates ==
    /\ []((pc = "loop" /\ ValidDigitString(number_in_digits)) => <>(pc = "idle"))
    /\ []((JustSpelled /\ ValidDigitString(number_in_digits))
            => /\ i = GroupCount(number_in_digits)
               /\ Text(number_in_words) # ""
               /\ Text(number_in_words_and_digits) # "")

C5_Witness ==
    /\ JustSpelled
    /\ ValidDigitString(number_in_digits)
    /\ number_length = 101
    /\ i = 34
    /\ number_in_words # <<>>

\* the strings do_spell can leave for digit string d on a fresh object
FreshSpellings(d) ==
    {<<r.words, r.wad>> : r \in {SpellOf(d, <<>>, <<>>, junk) : junk \in JunkWords}}

\* the digit strings the inputs of Spec can leave in an object
LifeDigitStrings ==
    {Sanitized(r) : r \in {x \in LifeInputs : is_valid_number(Sanitized(x))}}

\* C6: after any sequence of successful set_number_in_digits and do_spell
\* calls the stored results are never the spelling of a digit string other
\* than the one held: they are its spelling, or the spelling of none (a call
\* that throws changes nothing, so the states are those of successful calls)
C6_NeverSpellsAnother ==
    obj = "live"
        => \/ <<number_in_words, number_in_words_and_digits>>
                \in FreshSpellings(number_in_digits)
           \/ \A d \in LifeDigitStrings :
                <<number_in_words, number_in_words_and_digits>>
                    \notin FreshSpellings(d)

\* what the code does keep of it: right after do_spell the results are the
\* spelling of the digit string held, with nothing of the old text kept, and
\* set_number_in_digits leaves the results as they were
RespellOverwrites ==
    [][/\ (last' = "do_spell" /\ obj' = "live")
            => <<number_in_words', number_in_words_and_digits'>>
                   \in FreshSpellings(number_in_digits')
       /\ last' = "set_number_in_digits"
            => /\ number_in_words' = number_in_words
               /\ number_in_words_and_digits' = number_in_words_and_digits]_vars

\* C7: a call that raises the error leaves the digit string, the words and the
\* words_and_digits exactly as they were; a constructor that raises it leaves
\* no object
C7_FailureChangesNothing ==
    [][thrown' # ""
          => /\ number_in_digits' = number_in_digits
             /\ number_in_words' = number_in_words
             /\ number_in_words_and_digits' = number_in_words_and_digits
             /\ obj' = obj
             /\ last' = "Spell" => obj' = "none"]_vars

C7_Witness ==
    /\ obj = "live" /\ last = "set_number_in_digits" /\ thrown # ""
    /\ arg = <<"1", "a">>
    /\ number_in_digits = <<"1", "4">>
    /\ number_in_words # <<>>

\* C9's translation of a group value v in 0..999 into word pieces
GroupWords(v) ==
    LET r == v % 100
    IN  (IF v > 99 THEN <<word_for_ones[v \div 100], "hundred">> ELSE <<>>)
        \o (IF r \in 11..19 THEN <<word_for_teens[r - 10]>>
            ELSE IF r = 10 \/ r >= 20
            THEN <<word_for_tens[r \div 10]>>
                 \o (IF r % 10 # 0 THEN <<word_for_ones[r % 10]>> ELSE <<>>)
            ELSE IF r \in 1..9 THEN <<word_for_ones[r]>>
            ELSE <<>>)

\* what a group of value v with scale index k adds to the words as C8 has it;
\* the units group adds only its fragment
GroupInWords(v, k) ==
    IF v = 0 THEN <<>>
    ELSE GroupWords(v) \o (IF k >= 1 THEN <<name_for_big_numbers[k]>> ELSE <<>>)

GroupInWordsAndDigits(v, k) ==
    IF v = 0 THEN <<>>
    ELSE <<ToString(v)>> \o (IF k >= 1 THEN <<name_for_big_numbers[k]>> ELSE <<>>)

\* the pieces of the groups k..0 of d, most significant first
GroupsFrom(d, top, piece(_, _)) ==
    LET from[k \in -1..top] ==
            IF k < 0 THEN <<>> ELSE piece(GroupValue(d, k), k) \o from[k - 1]
    IN  from[top]

\* C8: a zero group adds nothing to either result; a nonzero group with scale
\* index k >= 1 adds its spelled value, or its numeral, followed by
\* scale-name[k]; "100020" gives "one hundred thousand twenty " and
\* "100 thousand 20 "
C8_ZeroGroupsSilent ==
    (JustSpelled /\ AllDigits(number_in_digits))
        => /\ Text(number_in_words)
                = Text(GroupsFrom(number_in_digits,
                                  GroupCount(number_in_digits) - 1, GroupInWords))
           /\ Text(number_in_words_and_digits)
                = Text(GroupsFrom(number_in_digits,
                                  GroupCount(number_in_digits) - 1,
                                  GroupInWordsAndDigits))
           /\ number_in_digits = <<"1", "0", "0", "0", "2", "0">>
                => /\ Text(number_in_words) = "one hundred thousand twenty "
                   /\ Text(number_in_words_and_digits) = "100 thousand 20 "

\* the pieces a group of value v and scale index k adds to the words, the
\* scale name included as do_spell appends it
GroupWithName(v, k) ==
    IF v = 0 THEN <<>> ELSE GroupWords(v) \o <<name_for_big_numbers[k]>>

\* C9: every group value 0..999 is put into words as GroupWords has it: the
\* hundreds word only above 99, a teen word alone for 11..19, the tens word
\* for 10 and for 20 and up followed by the ones word unless that digit is 0,
\* the ones word alone for 1..9, nothing for 0; ten is "ten", and no empty
\* table entry is ever emitted as a word
C9_GroupToWords ==
    (JustSpelled /\ AllDigits(number_in_digits))
        => /\ number_in_words
                = GroupsFrom(number_in_digits,
                             GroupCount(number_in_digits) - 1, GroupWithName)
           /\ \A k \in 1..(Len(number_in_words) - 1) : number_in_words[k] # ""
           /\ number_in_digits = <<"1", "0">> => number_in_words[1] = "ten"
           /\ number_in_digits = <<"1", "2", "3">>
                => SubSeq(number_in_words, 1, 4)
                     = <<"one", "hundred", "twenty", "three">>

C9_Witness ==
    /\ JustSpelled
    /\ number_in_digits = <<"9", "1", "9">>
    /\ SubSeq(number_in_words, 1, 3) = <<"nine", "hundred", "nineteen">>

\* C10: for every accepted digit string the grouper yields ceil(len/3) groups
\* of exactly 3 characters, the scale index starts at count-1 and goes down by
\* one per group, and every index do_spell reads the scale-name table at is
\* inside the table
C10_ScaleIndexInTable ==
    (pc = "loop" /\ AllDigits(number_in_digits))
        => /\ allocated_buckets = GroupCount(number_in_digits)
           /\ Len(bucket) = allocated_buckets
           /\ \A b \in 1..Len(bucket) : Len(bucket[b]) = 3
           /\ big_number = allocated_buckets - 1 - i
           /\ LoopContinues(i, allocated_buckets)
                => big_number \in DOMAIN name_for_big_numbers

C10_Witness ==
    /\ pc = "loop" /\ AllDigits(number_in_digits)
    /\ number_length = MAX_DIGITS_ALLOWED
    /\ i = 0
    /\ big_number = Len(big_number_names) - 1

====
